---- MODULE Spec2Model ----
(***************************************************************************)
(* The route compiler of common/routes/index.ts: the lexer parseStep, the  *)
(* sixteen evaluators behind evaluateAction, the RouteState they mutate    *)
(* and the assembler parseRoute with its end-of-run consistency pass.      *)
(*                                                                         *)
(* A JavaScript string is modelled as a sequence of chunks.  A chunk is    *)
(* one of the characters the code inspects (" ", "#", "{", "}", "|", a     *)
(* line break, a sign or a digit) or an opaque run of ordinary characters  *)
(* (a verb, an area id, a name).  JavaScript indexes arrays from 0, TLA+   *)
(* sequences from 1: action[0] of the source is action[1] here.            *)
(***************************************************************************)
EXTENDS Integers, Sequences, FiniteSets, TLC

VARIABLES state, lookup, action, result, nactions, pc, logs,
          unlockedAreas, departedAreas, portalTrip, acquiredAgain,
          routeSources, routes, routeLines, route, line, lineResults

historyVars == <<unlockedAreas, departedAreas, portalTrip, acquiredAgain>>
routeVars == <<routeSources, routes, routeLines, route, line, lineResults>>
vars == <<state, lookup, action, result, nactions, pc, logs, historyVars, routeVars>>

null == "null"
undefined == "undefined"

ERROR_INVALID_FORMAT == "invalid format"
ERROR_MISSING_AREA == "area does not exist"
ERROR_AREA_NO_WAYPOINT == "area does not have a waypoint"

\* The string made of the single opaque chunk w.
W(w) == <<w>>

(***************************************************************************)
(* The external world data: the area table and the boss -> waypoint unlock *)
(* table.  AreaOrder is the key order of the table (for ... in).           *)
(***************************************************************************)
AreaOrder == <<"1_1_1", "1_1_town", "1_1_2", "1_2_town", "Labyrinth_Airlock">>

areas ==
  ("1_1_1" :> [id |-> "1_1_1", name |-> "The Twilight Strand", act |-> 1,
               connection_ids |-> {"1_1_town"}, is_town_area |-> FALSE,
               has_waypoint |-> FALSE, crafting_recipes |-> <<>>]) @@
  ("1_1_town" :> [id |-> "1_1_town", name |-> "Lioneye's Watch", act |-> 1,
               connection_ids |-> {"1_1_1", "1_1_2"}, is_town_area |-> TRUE,
               has_waypoint |-> TRUE, crafting_recipes |-> <<>>]) @@
  ("1_1_2" :> [id |-> "1_1_2", name |-> "The Coast", act |-> 1,
               connection_ids |-> {"1_1_town"}, is_town_area |-> FALSE,
               has_waypoint |-> TRUE, crafting_recipes |-> <<"Fire Resistance">>]) @@
  ("1_2_town" :> [id |-> "1_2_town", name |-> "The Forest Encampment", act |-> 2,
               connection_ids |-> {"1_1_2"}, is_town_area |-> TRUE,
               has_waypoint |-> TRUE, crafting_recipes |-> <<>>]) @@
  ("Labyrinth_Airlock" :> [id |-> "Labyrinth_Airlock", name |-> "Aspirants' Plaza",
               act |-> 2, connection_ids |-> {}, is_town_area |-> FALSE,
               has_waypoint |-> TRUE, crafting_recipes |-> <<"Life", "Mana">>])

killWaypoints == ("Merveil" :> <<"Labyrinth_Airlock">>)

\* areas[s] for a string s is an area record (AreaExists) or undefined.
AreaExists(s) == Len(s) = 1 /\ s[1] \in DOMAIN areas
AreaAt(s) == areas[s[1]]

\* killWaypoints[s] for a string s: the unlock list, empty where s is no key.
KillWaypointsAt(s) ==
  IF Len(s) = 1 /\ s[1] \in DOMAIN killWaypoints THEN killWaypoints[s[1]] ELSE <<>>

\* The results an evaluator returns: a diagnostic string, or an EvaluateResult;
\* st is the RouteState as the call leaves it.
Diagnostic(msg, st) == [type |-> "string", value |-> msg, state |-> st]
Success(act, st) == [type |-> "result", action |-> act, additionalSteps |-> <<>>, state |-> st]

SeqToSet(s) == {s[i] : i \in 1..Len(s)}

EvaluateKill(a, lk, st) ==
  IF Len(a) # 2 THEN Diagnostic(ERROR_INVALID_FORMAT, st)
  ELSE LET bossName == a[2]
           waypointUnlocks == KillWaypointsAt(bossName)
       IN Success([type |-> "kill", value |-> bossName],
                  [st EXCEPT !.implicitWaypoints = @ \cup SeqToSet(waypointUnlocks)])

EvaluateArena(a, lk, st) ==
  IF Len(a) # 2 THEN Diagnostic(ERROR_INVALID_FORMAT, st)
  ELSE Success([type |-> "arena", value |-> a[2]], st)

EvaluateArea(a, lk, st) ==
  IF Len(a) # 2 THEN Diagnostic(ERROR_INVALID_FORMAT, st)
  ELSE IF ~AreaExists(a[2]) THEN Diagnostic(ERROR_MISSING_AREA, st)
  ELSE LET area == AreaAt(a[2])
       IN Success([type |-> "area", areaId |-> area.id], st)

\* EvaluateEnter with the move into the target made only for towns.
EvaluateEnterTownOnly(a, lk, st) ==
  IF Len(a) # 2 THEN Diagnostic(ERROR_INVALID_FORMAT, st)
  ELSE IF ~AreaExists(a[2]) THEN Diagnostic(ERROR_MISSING_AREA, st)
  ELSE LET area == AreaAt(a[2])
       IN IF ~(\E x \in area.connection_ids : x = st.currentAreaId)
          THEN Diagnostic("not connected to current area", st)
          ELSE Success([type |-> "enter", areaId |-> area.id],
                       IF area.is_town_area
                       THEN [st EXCEPT !.lastTownAreaId = area.id,
                                       !.currentAreaId = area.id,
                                       !.implicitWaypoints =
                                          IF area.has_waypoint THEN @ \cup {area.id} ELSE @]
                       ELSE st)

\* EvaluateEnter that makes every entered waypoint area an implicit waypoint.
EvaluateEnterUnlocksAll(a, lk, st) ==
  IF Len(a) # 2 THEN Diagnostic(ERROR_INVALID_FORMAT, st)
  ELSE IF ~AreaExists(a[2]) THEN Diagnostic(ERROR_MISSING_AREA, st)
  ELSE LET area == AreaAt(a[2])
       IN IF ~(\E x \in area.connection_ids : x = st.currentAreaId)
          THEN Diagnostic("not connected to current area", st)
          ELSE LET entered ==
                     [st EXCEPT !.lastTownAreaId = IF area.is_town_area THEN area.id ELSE @,
                                !.implicitWaypoints =
                                   IF area.has_waypoint THEN @ \cup {area.id} ELSE @]
               IN Success([type |-> "enter", areaId |-> area.id],
                          [entered EXCEPT !.currentAreaId = area.id])

\* EvaluateEnter that takes every entered area for the last town.
EvaluateEnterLastAreaAlways(a, lk, st) ==
  IF Len(a) # 2 THEN Diagnostic(ERROR_INVALID_FORMAT, st)
  ELSE IF ~AreaExists(a[2]) THEN Diagnostic(ERROR_MISSING_AREA, st)
  ELSE LET area == AreaAt(a[2])
       IN IF ~(\E x \in area.connection_ids : x = st.currentAreaId)
          THEN Diagnostic("not connected to current area", st)
          ELSE LET entered ==
                     [st EXCEPT !.lastTownAreaId = area.id,
                                !.implicitWaypoints =
                                   IF area.is_town_area /\ area.has_waypoint
                                   THEN @ \cup {area.id} ELSE @]
               IN Success([type |-> "enter", areaId |-> area.id],
                          [entered EXCEPT !.currentAreaId = area.id])

EvaluateEnter(a, lk, st) ==
  IF Len(a) # 2 THEN Diagnostic(ERROR_INVALID_FORMAT, st)
  ELSE IF ~AreaExists(a[2]) THEN Diagnostic(ERROR_MISSING_AREA, st)
  ELSE LET area == AreaAt(a[2])
       IN IF ~(\E x \in area.connection_ids : x = st.currentAreaId)
          THEN Diagnostic("not connected to current area", st)
          ELSE LET inTown ==
                     IF area.is_town_area
                     THEN [st EXCEPT !.lastTownAreaId = area.id,
                                     !.implicitWaypoints =
                                        IF area.has_waypoint THEN @ \cup {area.id} ELSE @]
                     ELSE st
               IN Success([type |-> "enter", areaId |-> area.id],
                          [inTown EXCEPT !.currentAreaId = area.id])

EvaluateTown(a, lk, st) ==
  IF Len(a) # 1 THEN Diagnostic(ERROR_INVALID_FORMAT, st)
  ELSE Success([type |-> "town"], [st EXCEPT !.currentAreaId = st.lastTownAreaId])

\* EvaluateWaypoint that marks the target as used before it tests the current area.
EvaluateWaypointEagerUse(a, lk, st) ==
  IF Len(a) # 1 /\ Len(a) # 2 THEN Diagnostic(ERROR_INVALID_FORMAT, st)
  ELSE IF Len(a) = 2
  THEN IF ~AreaExists(a[2]) THEN Diagnostic(ERROR_MISSING_AREA, st)
  ELSE LET area == AreaAt(a[2])
           currentArea == areas[st.currentAreaId]
           used == [st EXCEPT !.usedWaypoints = @ \cup {area.id}]
       IN IF area.id \notin st.implicitWaypoints /\ area.id \notin st.explicitWaypoints
          THEN Diagnostic("missing target waypoint", st)
          ELSE IF ~currentArea.has_waypoint THEN Diagnostic(ERROR_AREA_NO_WAYPOINT, used)
          ELSE Success([type |-> "waypoint", areaId |-> area.id],
                       [used EXCEPT !.implicitWaypoints = @ \cup {currentArea.id},
                                    !.currentAreaId = area.id])
  ELSE Success([type |-> "waypoint", areaId |-> null], st)

\* EvaluateWaypoint that does not record the area it leaves.
EvaluateWaypointNoDeparture(a, lk, st) ==
  IF Len(a) # 1 /\ Len(a) # 2 THEN Diagnostic(ERROR_INVALID_FORMAT, st)
  ELSE IF Len(a) = 2
  THEN IF ~AreaExists(a[2]) THEN Diagnostic(ERROR_MISSING_AREA, st)
  ELSE LET area == AreaAt(a[2])
           currentArea == areas[st.currentAreaId]
       IN IF area.id \notin st.implicitWaypoints /\ area.id \notin st.explicitWaypoints
          THEN Diagnostic("missing target waypoint", st)
          ELSE IF ~currentArea.has_waypoint THEN Diagnostic(ERROR_AREA_NO_WAYPOINT, st)
          ELSE Success([type |-> "waypoint", areaId |-> area.id],
                       [st EXCEPT !.usedWaypoints = @ \cup {area.id},
                                  !.currentAreaId = area.id])
  ELSE Success([type |-> "waypoint", areaId |-> null], st)

\* EvaluateWaypoint without the test that the target waypoint is known.
EvaluateWaypointAnyTarget(a, lk, st) ==
  IF Len(a) # 1 /\ Len(a) # 2 THEN Diagnostic(ERROR_INVALID_FORMAT, st)
  ELSE IF Len(a) = 2
  THEN IF ~AreaExists(a[2]) THEN Diagnostic(ERROR_MISSING_AREA, st)
  ELSE LET area == AreaAt(a[2])
           currentArea == areas[st.currentAreaId]
       IN IF ~currentArea.has_waypoint THEN Diagnostic(ERROR_AREA_NO_WAYPOINT, st)
          ELSE Success([type |-> "waypoint", areaId |-> area.id],
                       [st EXCEPT !.implicitWaypoints = @ \cup {currentArea.id},
                                  !.usedWaypoints = @ \cup {area.id},
                                  !.currentAreaId = area.id])
  ELSE Success([type |-> "waypoint", areaId |-> null], st)

EvaluateWaypoint(a, lk, st) ==
  IF Len(a) # 1 /\ Len(a) # 2 THEN Diagnostic(ERROR_INVALID_FORMAT, st)
  ELSE IF Len(a) = 2
  THEN IF ~AreaExists(a[2]) THEN Diagnostic(ERROR_MISSING_AREA, st)
  ELSE LET area == AreaAt(a[2])
           currentArea == areas[st.currentAreaId]
       IN IF area.id \notin st.implicitWaypoints /\ area.id \notin st.explicitWaypoints
          THEN Diagnostic("missing target waypoint", st)
          ELSE IF ~currentArea.has_waypoint THEN Diagnostic(ERROR_AREA_NO_WAYPOINT, st)
          ELSE Success([type |-> "waypoint", areaId |-> area.id],
                       [st EXCEPT !.implicitWaypoints = @ \cup {currentArea.id},
                                  !.usedWaypoints = @ \cup {area.id},
                                  !.currentAreaId = area.id])
  ELSE Success([type |-> "waypoint", areaId |-> null], st)

\* EvaluateGetWaypoint that refuses a waypoint already acquired explicitly.
EvaluateGetWaypointOnce(a, lk, st) ==
  IF Len(a) # 1 THEN Diagnostic(ERROR_INVALID_FORMAT, st)
  ELSE IF st.currentAreaId \notin DOMAIN areas THEN Diagnostic(ERROR_MISSING_AREA, st)
  ELSE LET area == areas[st.currentAreaId]
       IN IF ~area.has_waypoint THEN Diagnostic(ERROR_AREA_NO_WAYPOINT, st)
          ELSE IF area.id \in st.implicitWaypoints \/ area.id \in st.explicitWaypoints
          THEN Diagnostic("waypoint already acquired", st)
          ELSE Success([type |-> "get_waypoint"],
                       [st EXCEPT !.explicitWaypoints = @ \cup {area.id}])

\* EvaluateGetWaypoint with the acquired waypoints looked up among the explicit ones.
EvaluateGetWaypointExplicitOnly(a, lk, st) ==
  IF Len(a) # 1 THEN Diagnostic(ERROR_INVALID_FORMAT, st)
  ELSE IF st.currentAreaId \notin DOMAIN areas THEN Diagnostic(ERROR_MISSING_AREA, st)
  ELSE LET area == areas[st.currentAreaId]
       IN IF ~area.has_waypoint THEN Diagnostic(ERROR_AREA_NO_WAYPOINT, st)
          ELSE IF area.id \in st.explicitWaypoints
          THEN Diagnostic("waypoint already acquired", st)
          ELSE Success([type |-> "get_waypoint"],
                       [st EXCEPT !.explicitWaypoints = @ \cup {area.id}])

\* EvaluateGetWaypoint without the test that the current area has a waypoint.
EvaluateGetWaypointAnywhere(a, lk, st) ==
  IF Len(a) # 1 THEN Diagnostic(ERROR_INVALID_FORMAT, st)
  ELSE IF st.currentAreaId \notin DOMAIN areas THEN Diagnostic(ERROR_MISSING_AREA, st)
  ELSE LET area == areas[st.currentAreaId]
       IN IF area.id \in st.implicitWaypoints
          THEN Diagnostic("waypoint already acquired", st)
          ELSE Success([type |-> "get_waypoint"],
                       [st EXCEPT !.explicitWaypoints = @ \cup {area.id}])

EvaluateGetWaypoint(a, lk, st) ==
  IF Len(a) # 1 THEN Diagnostic(ERROR_INVALID_FORMAT, st)
  ELSE IF st.currentAreaId \notin DOMAIN areas THEN Diagnostic(ERROR_MISSING_AREA, st)
  ELSE LET area == areas[st.currentAreaId]
       IN IF ~area.has_waypoint THEN Diagnostic(ERROR_AREA_NO_WAYPOINT, st)
          ELSE IF area.id \in st.implicitWaypoints
          THEN Diagnostic("waypoint already acquired", st)
          ELSE Success([type |-> "get_waypoint"],
                       [st EXCEPT !.explicitWaypoints = @ \cup {area.id}])

EvaluateSetPortal(a, lk, st) ==
  IF Len(a) # 1 THEN Diagnostic(ERROR_INVALID_FORMAT, st)
  ELSE Success([type |-> "set_portal"], [st EXCEPT !.portalAreaId = st.currentAreaId])

\* TownOfAct with the acts counted from 0.
TownOfActFromZero(lk, act) ==
  IF act + 1 \in DOMAIN lk.towns THEN lk.towns[act + 1] ELSE undefined

\* lookup.towns[act]: undefined for an act without a town.
TownOfAct(lk, act) == IF act \in DOMAIN lk.towns THEN lk.towns[act] ELSE undefined

\* EvaluateUsePortal with the anchor consumed by the trip to town as well.
EvaluateUsePortalOneWay(a, lk, st) ==
  IF Len(a) # 1 THEN Diagnostic(ERROR_INVALID_FORMAT, st)
  ELSE IF st.portalAreaId = null THEN Diagnostic("portal must be set", st)
  ELSE LET currentArea == areas[st.currentAreaId]
       IN IF currentArea.id = st.portalAreaId
          THEN Success([type |-> "use_portal"],
                       [st EXCEPT !.portalAreaId = null,
                                  !.currentAreaId = TownOfAct(lk, currentArea.act)])
          ELSE IF ~currentArea.is_town_area
          THEN Diagnostic("can only use portal from town or portal area", st)
          ELSE Success([type |-> "use_portal"],
                       [st EXCEPT !.currentAreaId = st.portalAreaId,
                                  !.portalAreaId = null])

\* EvaluateUsePortal that travels to the anchor from any area.
EvaluateUsePortalFromAnywhere(a, lk, st) ==
  IF Len(a) # 1 THEN Diagnostic(ERROR_INVALID_FORMAT, st)
  ELSE IF st.portalAreaId = null THEN Diagnostic("portal must be set", st)
  ELSE LET currentArea == areas[st.currentAreaId]
       IN IF currentArea.id = st.portalAreaId
          THEN Success([type |-> "use_portal"],
                       [st EXCEPT !.portalAreaId = st.currentAreaId,
                                  !.currentAreaId = TownOfAct(lk, currentArea.act)])
          ELSE Success([type |-> "use_portal"],
                       [st EXCEPT !.currentAreaId = st.portalAreaId,
                                  !.portalAreaId = null])

EvaluateUsePortal(a, lk, st) ==
  IF Len(a) # 1 THEN Diagnostic(ERROR_INVALID_FORMAT, st)
  ELSE IF st.portalAreaId = null THEN Diagnostic("portal must be set", st)
  ELSE LET currentArea == areas[st.currentAreaId]
       IN IF currentArea.id = st.portalAreaId
          THEN Success([type |-> "use_portal"],
                       [st EXCEPT !.portalAreaId = st.currentAreaId,
                                  !.currentAreaId = TownOfAct(lk, currentArea.act)])
          ELSE IF ~currentArea.is_town_area
          THEN Diagnostic("can only use portal from town or portal area", st)
          ELSE Success([type |-> "use_portal"],
                       [st EXCEPT !.currentAreaId = st.portalAreaId,
                                  !.portalAreaId = null])

EvaluateGeneric(a, lk, st) ==
  IF Len(a) # 2 THEN Diagnostic(ERROR_INVALID_FORMAT, st)
  ELSE Success([type |-> "generic", value |-> a[2]], st)

EvaluateTrial(a, lk, st) ==
  IF Len(a) # 1 THEN Diagnostic(ERROR_INVALID_FORMAT, st)
  ELSE Success([type |-> "trial"], st)

expectedAreaId == "Labyrinth_Airlock"

\* EvaluateAscend without the test of the current area.
EvaluateAscendAnywhere(a, lk, st) ==
  IF Len(a) # 1 THEN Diagnostic(ERROR_INVALID_FORMAT, st)
  ELSE Success([type |-> "ascend"], [st EXCEPT !.currentAreaId = st.lastTownAreaId])

EvaluateAscend(a, lk, st) ==
  IF Len(a) # 1 THEN Diagnostic(ERROR_INVALID_FORMAT, st)
  ELSE LET currentArea == areas[st.currentAreaId]
       IN IF currentArea.id # expectedAreaId
          THEN Diagnostic("must be in \"" \o areas[expectedAreaId].name \o "\"", st)
          ELSE Success([type |-> "ascend"], [st EXCEPT !.currentAreaId = st.lastTownAreaId])

EvaluateCrafting(a, lk, st) ==
  IF Len(a) > 2 THEN Diagnostic(ERROR_INVALID_FORMAT, st)
  ELSE IF Len(a) # 1 /\ ~AreaExists(a[2]) THEN Diagnostic(ERROR_MISSING_AREA, st)
  ELSE LET area == IF Len(a) = 1 THEN areas[st.currentAreaId] ELSE AreaAt(a[2])
       IN Success([type |-> "crafting", crafting_recipes |-> area.crafting_recipes],
                  [st EXCEPT !.craftingAreas = @ \cup {area.id}])

(***************************************************************************)
(* Number.parseFloat on a string over the chunks " ", "+", "-", the digits *)
(* and opaque words: leading white space is skipped, then an optional sign *)
(* and the longest run of digits are read and the rest is ignored; with no *)
(* digit the value is NaN.  Fractions and exponents are outside the        *)
(* alphabet.  JsRem is the % of JavaScript, whose sign is the dividend's.  *)
(***************************************************************************)
Digits == <<"0", "1", "2", "3", "4", "5", "6", "7", "8", "9">>

IsDigit(c) == \E d \in 1..Len(Digits) : Digits[d] = c

DigitValue(c) == (CHOOSE d \in 1..Len(Digits) : Digits[d] = c) - 1

RECURSIVE SkipWhiteSpace(_)
SkipWhiteSpace(s) == IF s # <<>> /\ Head(s) = " " THEN SkipWhiteSpace(Tail(s)) ELSE s

RECURSIVE ReadDigits(_, _, _)
ReadDigits(s, acc, n) ==
  IF s # <<>> /\ IsDigit(Head(s))
  THEN ReadDigits(Tail(s), acc * Len(Digits) + DigitValue(Head(s)), n + 1)
  ELSE [value |-> acc, count |-> n]

parseFloat(str) ==
  LET t == SkipWhiteSpace(str)
      signed == t # <<>> /\ Head(t) \in {"+", "-"}
      body == IF signed THEN Tail(t) ELSE t
      read == ReadDigits(body, 0, 0)
  IN IF read.count = 0 THEN [isNaN |-> TRUE, value |-> 0]
     ELSE [isNaN |-> FALSE,
           value |-> IF signed /\ Head(t) = "-" THEN 0 - read.value ELSE read.value]

JsRem(x, y) == IF x >= 0 THEN x % y ELSE 0 - ((0 - x) % y)

FullTurn == 360
DirStep == 45

\* EvaluateDirection without the turn added to a negative remainder.
EvaluateDirectionNoWrap(a, lk, st) ==
  IF Len(a) # 2 THEN Diagnostic(ERROR_INVALID_FORMAT, st)
  ELSE LET parsed == parseFloat(a[2])
           dir == JsRem(parsed.value, FullTurn)
       IN IF parsed.isNaN THEN Diagnostic("dir value is not a number", st)
          ELSE IF JsRem(dir, DirStep) # 0
          THEN Diagnostic("dir value must be in intervals of 45", st)
          ELSE Success([type |-> "dir", dirIndex |-> dir \div DirStep], st)

EvaluateDirection(a, lk, st) ==
  IF Len(a) # 2 THEN Diagnostic(ERROR_INVALID_FORMAT, st)
  ELSE LET parsed == parseFloat(a[2])
           rem == JsRem(parsed.value, FullTurn)
           dir == IF rem < 0 THEN rem + FullTurn ELSE rem
       IN IF parsed.isNaN THEN Diagnostic("dir value is not a number", st)
          ELSE IF JsRem(dir, DirStep) # 0
          THEN Diagnostic("dir value must be in intervals of 45", st)
          ELSE Success([type |-> "dir", dirIndex |-> dir \div DirStep], st)

(***************************************************************************)
(* The quest evaluators live in ./quest: they take the same arguments and  *)
(* return a diagnostic or a result that may carry extra reward steps.      *)
(***************************************************************************)
quests == {"a1q1"}

EvaluateQuest(a, lk, st) ==
  IF Len(a) # 2 THEN Diagnostic(ERROR_INVALID_FORMAT, st)
  ELSE IF ~(Len(a[2]) = 1 /\ a[2][1] \in quests) THEN Diagnostic("invalid quest", st)
  ELSE [type |-> "result", action |-> [type |-> "quest", questId |-> a[2][1]],
        additionalSteps |-> <<[type |-> "reward_step", questId |-> a[2][1]]>>,
        state |-> st]

EvaluateQuestText(a, lk, st) ==
  IF Len(a) # 2 THEN Diagnostic(ERROR_INVALID_FORMAT, st)
  ELSE Success([type |-> "quest_text", value |-> a[2]], st)

evaluateAction(a, lk, st) ==
  CASE a[1] = W("kill") -> EvaluateKill(a, lk, st)
    [] a[1] = W("arena") -> EvaluateArena(a, lk, st)
    [] a[1] = W("area") -> EvaluateArea(a, lk, st)
    [] a[1] = W("enter") -> EvaluateEnter(a, lk, st)
    [] a[1] = W("town") -> EvaluateTown(a, lk, st)
    [] a[1] = W("waypoint") -> EvaluateWaypoint(a, lk, st)
    [] a[1] = W("get_waypoint") -> EvaluateGetWaypoint(a, lk, st)
    [] a[1] = W("set_portal") -> EvaluateSetPortal(a, lk, st)
    [] a[1] = W("use_portal") -> EvaluateUsePortal(a, lk, st)
    [] a[1] = W("quest") -> EvaluateQuest(a, lk, st)
    [] a[1] = W("quest_text") -> EvaluateQuestText(a, lk, st)
    [] a[1] = W("generic") -> EvaluateGeneric(a, lk, st)
    [] a[1] = W("trial") -> EvaluateTrial(a, lk, st)
    [] a[1] = W("crafting") -> EvaluateCrafting(a, lk, st)
    [] a[1] = W("ascend") -> EvaluateAscend(a, lk, st)
    [] a[1] = W("dir") -> EvaluateDirection(a, lk, st)
    [] OTHER -> Diagnostic(ERROR_INVALID_FORMAT, st)

RECURSIVE TownsUpTo(_)
TownsUpTo(i) ==
  IF i = 0 THEN <<>>
  ELSE LET area == areas[AreaOrder[i]]
       IN IF area.is_town_area THEN (area.act :> area.id) @@ TownsUpTo(i - 1)
          ELSE TownsUpTo(i - 1)

initializeRouteLookup(buildData) ==
  [towns |-> TownsUpTo(Len(AreaOrder)), buildData |-> buildData]

initializeRouteState ==
  [implicitWaypoints |-> {}, explicitWaypoints |-> {}, usedWaypoints |-> {},
   craftingAreas |-> {}, currentAreaId |-> "1_1_1", lastTownAreaId |-> "1_1_town",
   portalAreaId |-> null, acquiredGems |-> {}]

(***************************************************************************)
(* The consistency pass that ends parseRoute: one line per explicit        *)
(* waypoint never travelled to, then one per area of the table that has    *)
(* recipes and was never a crafting stop.                                  *)
(***************************************************************************)
RECURSIVE UnusedWaypointLogs(_, _)
UnusedWaypointLogs(waypoints, st) ==
  IF waypoints = {} THEN <<>>
  ELSE LET waypoint == CHOOSE w \in waypoints : TRUE
           rest == UnusedWaypointLogs(waypoints \ {waypoint}, st)
       IN IF waypoint \notin st.usedWaypoints
          THEN <<[log |-> "unused waypoint", areaId |-> waypoint]>> \o rest
          ELSE rest

\* MissingCraftingLogs without the test of the visited crafting areas.
RECURSIVE MissingCraftingLogsAll(_, _)
MissingCraftingLogsAll(i, st) ==
  IF i > Len(AreaOrder) THEN <<>>
  ELSE LET area == areas[AreaOrder[i]]
           rest == MissingCraftingLogsAll(i + 1, st)
       IN IF Len(area.crafting_recipes) > 0
          THEN <<[log |-> "missing crafting area", areaId |-> area.id,
                  crafting_recipes |-> area.crafting_recipes]>> \o rest
          ELSE rest

RECURSIVE MissingCraftingLogs(_, _)
MissingCraftingLogs(i, st) ==
  IF i > Len(AreaOrder) THEN <<>>
  ELSE LET area == areas[AreaOrder[i]]
           rest == MissingCraftingLogs(i + 1, st)
       IN IF Len(area.crafting_recipes) > 0 /\ area.id \notin st.craftingAreas
          THEN <<[log |-> "missing crafting area", areaId |-> area.id,
                  crafting_recipes |-> area.crafting_recipes]>> \o rest
          ELSE rest

ConsistencyLogs(st) == UnusedWaypointLogs(st.explicitWaypoints, st) \o MissingCraftingLogs(1, st)

(***************************************************************************)
(* parseStep: the matches of the line regex, left to right.  Its three     *)
(* alternatives are tried in order at a position: a comment (white space,  *)
(* a hash sign and the rest of the line), a text (a longest run without an *)
(* opening brace or hash sign), an action (braces around one character or  *)
(* more, closed by the first closing brace that allows it).  Where none    *)
(* matches, the search moves one character on.                             *)
(***************************************************************************)
IsSpace(c) == c = " "

\* The comment alternative matches at i: white space up to a "#".
CommentAt(text, i) ==
  \E k \in i..Len(text) : text[k] = "#" /\ \A m \in i..(k - 1) : IsSpace(text[m])

\* The text alternative at i: the end of the longest run without "{" and "#".
RECURSIVE TextEnd(_, _)
TextEnd(text, i) ==
  IF i < Len(text) /\ text[i + 1] \notin {"{", "#"} THEN TextEnd(text, i + 1) ELSE i

\* The action alternative at i: the closing braces that leave the group a character.
ClosingAt(text, i) == {j \in (i + 2)..Len(text) : text[j] = "}"}

Min(S) == CHOOSE x \in S : \A y \in S : x <= y

\* String.prototype.split("|").
RECURSIVE SplitPipe(_, _)
SplitPipe(str, current) ==
  IF str = <<>> THEN <<current>>
  ELSE IF Head(str) = "|" THEN <<current>> \o SplitPipe(Tail(str), <<>>)
  ELSE SplitPipe(Tail(str), Append(current, Head(str)))

RECURSIVE MatchFrom(_, _)
MatchFrom(text, i) ==
  IF i > Len(text) THEN <<>>
  ELSE IF CommentAt(text, i) THEN <<>>
  ELSE IF text[i] # "{"
  THEN LET j == TextEnd(text, i)
       IN <<[type |-> "string", value |-> SubSeq(text, i, j)]>> \o MatchFrom(text, j + 1)
  ELSE IF ClosingAt(text, i) # {}
  THEN LET j == Min(ClosingAt(text, i))
       IN <<[type |-> "action", value |-> SplitPipe(SubSeq(text, i + 1, j - 1), <<>>)]>>
          \o MatchFrom(text, j + 1)
  ELSE MatchFrom(text, i + 1)

parseStep(text) == MatchFrom(text, 1)

(***************************************************************************)
(* parseRoute, line by line.  SplitLines splits at CR LF, CR or LF;         *)
(* EvaluateLine is the body of the loop over a document's lines: it lexes  *)
(* the line, evaluates its tokens in order against the state, logs the     *)
(* diagnostics and appends the step and the extra steps to the route.      *)
(***************************************************************************)
RECURSIVE SplitLines(_, _)
SplitLines(str, current) ==
  IF str = <<>> THEN <<current>>
  ELSE IF Head(str) = "\r" /\ Len(str) > 1 /\ str[2] = "\n"
  THEN <<current>> \o SplitLines(Tail(Tail(str)), <<>>)
  ELSE IF Head(str) \in {"\r", "\n"} THEN <<current>> \o SplitLines(Tail(str), <<>>)
  ELSE SplitLines(Tail(str), Append(current, Head(str)))

\* EvaluateSubSteps that gives the line up at its first failed token.
RECURSIVE EvaluateSubStepsUntilFailure(_, _, _)
EvaluateSubStepsUntilFailure(parsedStep, lk, acc) ==
  IF parsedStep = <<>> THEN acc
  ELSE LET subStep == Head(parsedStep)
           r == evaluateAction(subStep.value, lk, acc.state)
       IN IF subStep.type = "string"
          THEN EvaluateSubStepsUntilFailure(Tail(parsedStep), lk,
                 [acc EXCEPT !.parts = Append(@, subStep)])
          ELSE IF r.type = "string"
          THEN [acc EXCEPT !.state = r.state,
                           !.results = Append(@, r.value),
                           !.logs = Append(@, [log |-> r.value, subStep |-> subStep.value])]
          ELSE EvaluateSubStepsUntilFailure(Tail(parsedStep), lk,
                 [acc EXCEPT !.state = r.state,
                             !.results = Append(@, "ok"),
                             !.parts = Append(@, r.action),
                             !.additionalSteps = @ \o r.additionalSteps])

RECURSIVE EvaluateSubSteps(_, _, _)
EvaluateSubSteps(parsedStep, lk, acc) ==
  IF parsedStep = <<>> THEN acc
  ELSE LET subStep == Head(parsedStep)
           r == evaluateAction(subStep.value, lk, acc.state)
       IN EvaluateSubSteps(Tail(parsedStep), lk,
            IF subStep.type = "string"
            THEN [acc EXCEPT !.parts = Append(@, subStep)]
            ELSE IF r.type = "string"
            THEN [acc EXCEPT !.state = r.state,
                             !.results = Append(@, r.value),
                             !.logs = Append(@, [log |-> r.value, subStep |-> subStep.value])]
            ELSE [acc EXCEPT !.state = r.state,
                             !.results = Append(@, "ok"),
                             !.parts = Append(@, r.action),
                             !.additionalSteps = @ \o r.additionalSteps])

\* EvaluateLine with the step appended whatever its parts.
EvaluateLineAlways(text, lk, st) ==
  LET done == EvaluateSubSteps(parseStep(text), lk,
                [state |-> st, parts |-> <<>>, additionalSteps |-> <<>>,
                 logs |-> <<>>, results |-> <<>>])
      step == [type |-> "action_step", parts |-> done.parts]
  IN [state |-> done.state,
      steps |-> <<step>> \o done.additionalSteps,
      logs |-> done.logs,
      results |-> done.results]

EvaluateLine(text, lk, st) ==
  LET done == EvaluateSubSteps(parseStep(text), lk,
                [state |-> st, parts |-> <<>>, additionalSteps |-> <<>>,
                 logs |-> <<>>, results |-> <<>>])
      step == [type |-> "action_step", parts |-> done.parts]
  IN [state |-> done.state,
      steps |-> (IF Len(step.parts) > 0 THEN <<step>> ELSE <<>>) \o done.additionalSteps,
      logs |-> done.logs,
      results |-> done.results]

(***************************************************************************)
(* parseRoute as one call: the routes of the documents in order, the state *)
(* as the call leaves it and the lines it logs.                            *)
(***************************************************************************)
RECURSIVE RouteOfLines(_, _, _)
RouteOfLines(lines, lk, acc) ==
  IF lines = <<>> THEN acc
  ELSE IF Head(lines) = <<>> THEN RouteOfLines(Tail(lines), lk, acc)
  ELSE LET r == EvaluateLine(Head(lines), lk, acc.state)
       IN RouteOfLines(Tail(lines), lk,
            [state |-> r.state, route |-> acc.route \o r.steps, logs |-> acc.logs \o r.logs])

RECURSIVE RoutesOfSources(_, _, _)
RoutesOfSources(sources, lk, acc) ==
  IF sources = <<>> THEN acc
  ELSE LET done == RouteOfLines(SplitLines(Head(sources), <<>>), lk,
                     [state |-> acc.state, route |-> <<>>, logs |-> acc.logs])
       IN RoutesOfSources(Tail(sources), lk,
            [state |-> done.state, routes |-> Append(acc.routes, done.route),
             logs |-> done.logs])

parseRoute(sources, lk, st) ==
  LET done == RoutesOfSources(sources, lk, [state |-> st, routes |-> <<>>, logs |-> <<>>])
  IN [routes |-> done.routes, state |-> done.state,
      logs |-> done.logs \o ConsistencyLogs(done.state)]

(***************************************************************************)
(* The action tokens fed to evaluateAction: for every verb the well-formed *)
(* tokens over the arguments below, and the malformed ones with the        *)
(* argument missing or with one argument too many.  A run evaluates at     *)
(* most MaxActions tokens.                                                 *)
(***************************************************************************)
MaxActions == 5

AreaArgs == {W(id) : id \in DOMAIN areas} \cup {W("nowhere")}
CraftingArgs == {W("Labyrinth_Airlock"), W("nowhere")}
BossArgs == {W("Merveil"), W("Hillock")}
TextArgs == {W("text")}
AngleArgs == {<<"-", "4", "5">>, <<"5", "0">>, W("north")}
QuestArgs == {W("a1q1"), W("a9q9")}

\* The tokens of a verb that takes no argument, then of one that takes one.
Nullary(verb) == {<<W(verb)>>, <<W(verb), W("extra")>>}
Unary(verb, args) ==
  {<<W(verb)>>, <<W(verb), W("extra"), W("extra")>>} \cup {<<W(verb), x>> : x \in args}

StripState(r) ==
  IF r.type = "string" THEN [type |-> "string", value |-> r.value]
  ELSE [type |-> "result", action |-> r.action, additionalSteps |-> r.additionalSteps]

(***************************************************************************)
(* History kept beside the RouteState: the areas unlocked so far by a kill *)
(* unlock, a get_waypoint or a town entry; the areas left by a waypoint    *)
(* travel; and how far a set_portal / use_portal round trip has come.      *)
(***************************************************************************)
UnlockedBy(a, r, st) ==
  IF r.type # "result" THEN {}
  ELSE IF a[1] = W("kill") THEN SeqToSet(KillWaypointsAt(a[2]))
  ELSE IF a[1] = W("get_waypoint") THEN {st.currentAreaId}
  ELSE IF a[1] = W("enter") /\ AreaAt(a[2]).is_town_area /\ AreaAt(a[2]).has_waypoint
  THEN {AreaAt(a[2]).id}
  ELSE {}

DepartedBy(a, r, st) ==
  IF r.type = "result" /\ a[1] = W("waypoint") /\ Len(a) = 2 THEN {st.currentAreaId} ELSE {}

NoTrip == [phase |-> "none", areaId |-> null]

PortalTripAfter(trip, a, st) ==
  IF a = <<W("set_portal")>> /\ st.portalAreaId = null
     /\ ~areas[st.currentAreaId].is_town_area
  THEN [phase |-> "set", areaId |-> st.currentAreaId]
  ELSE IF a = <<W("use_portal")>> /\ trip.phase = "set" THEN [trip EXCEPT !.phase = "first"]
  ELSE IF a = <<W("use_portal")>> /\ trip.phase = "first" THEN [trip EXCEPT !.phase = "second"]
  ELSE IF a = <<W("use_portal")>> /\ trip.phase = "second" THEN [trip EXCEPT !.phase = "third"]
  ELSE NoTrip

\* Whether the evaluation of a, with outcome r, is a get_waypoint that succeeds
\* right after a get_waypoint that succeeded.
AcquiredAgainBy(a, r, lastAction, lastResult) ==
  /\ a = <<W("get_waypoint")>>
  /\ r.type = "result"
  /\ lastAction = a
  /\ lastResult.type = "result"

\* One turn of parseRoute's token loop: evaluateAction on the token a.
Evaluate(a) ==
  /\ LET r == evaluateAction(a, lookup, state)
     IN /\ state' = r.state
        /\ result' = StripState(r)
        /\ unlockedAreas' = unlockedAreas \cup UnlockedBy(a, r, state)
        /\ departedAreas' = departedAreas \cup DepartedBy(a, r, state)
        /\ portalTrip' = PortalTripAfter(portalTrip, a, state)
        /\ acquiredAgain' = AcquiredAgainBy(a, r, action, result)
  /\ action' = a
  /\ nactions' = nactions + 1
  /\ UNCHANGED <<lookup, pc, logs, routeVars>>

Kill ==
  /\ pc = "evaluate"
  /\ nactions < MaxActions
  /\ \E a \in Unary("kill", BossArgs) : Evaluate(a)
Arena ==
  /\ pc = "evaluate"
  /\ nactions < MaxActions
  /\ \E a \in Unary("arena", TextArgs) : Evaluate(a)
AreaRef ==
  /\ pc = "evaluate"
  /\ nactions < MaxActions
  /\ \E a \in Unary("area", CraftingArgs) : Evaluate(a)
Enter ==
  /\ pc = "evaluate"
  /\ nactions < MaxActions
  /\ \E a \in Unary("enter", AreaArgs) : Evaluate(a)
Town ==
  /\ pc = "evaluate"
  /\ nactions < MaxActions
  /\ \E a \in Nullary("town") : Evaluate(a)
Waypoint ==
  /\ pc = "evaluate"
  /\ nactions < MaxActions
  /\ \E a \in Unary("waypoint", AreaArgs) : Evaluate(a)
GetWaypoint ==
  /\ pc = "evaluate"
  /\ nactions < MaxActions
  /\ \E a \in Nullary("get_waypoint") : Evaluate(a)
SetPortal ==
  /\ pc = "evaluate"
  /\ nactions < MaxActions
  /\ \E a \in Nullary("set_portal") : Evaluate(a)
UsePortal ==
  /\ pc = "evaluate"
  /\ nactions < MaxActions
  /\ \E a \in Nullary("use_portal") : Evaluate(a)
Quest ==
  /\ pc = "evaluate"
  /\ nactions < MaxActions
  /\ \E a \in Unary("quest", QuestArgs) : Evaluate(a)
QuestText ==
  /\ pc = "evaluate"
  /\ nactions < MaxActions
  /\ \E a \in Unary("quest_text", TextArgs) : Evaluate(a)
Generic ==
  /\ pc = "evaluate"
  /\ nactions < MaxActions
  /\ \E a \in Unary("generic", TextArgs) : Evaluate(a)
Trial ==
  /\ pc = "evaluate"
  /\ nactions < MaxActions
  /\ \E a \in Nullary("trial") : Evaluate(a)
Ascend ==
  /\ pc = "evaluate"
  /\ nactions < MaxActions
  /\ \E a \in Nullary("ascend") : Evaluate(a)
Crafting ==
  /\ pc = "evaluate"
  /\ nactions < MaxActions
  /\ \E a \in Unary("crafting", CraftingArgs) : Evaluate(a)
Direction ==
  /\ pc = "evaluate"
  /\ nactions < MaxActions
  /\ \E a \in Unary("dir", AngleArgs) : Evaluate(a)
UnknownVerb ==
  /\ pc = "evaluate"
  /\ nactions < MaxActions
  /\ \E a \in Nullary("jump") : Evaluate(a)

\* The end of the run: the consistency pass over the final state.
Finish ==
  /\ pc = "evaluate"
  /\ logs' = ConsistencyLogs(state)
  /\ pc' = "done"
  /\ UNCHANGED <<state, lookup, action, result, nactions, historyVars, routeVars>>

NoResult == [type |-> "none"]

Init ==
  /\ lookup = initializeRouteLookup(null)
  /\ state = initializeRouteState
  /\ action = <<>>
  /\ result = NoResult
  /\ nactions = 0
  /\ pc = "evaluate"
  /\ logs = <<>>
  /\ unlockedAreas = {}
  /\ departedAreas = {}
  /\ portalTrip = NoTrip
  /\ acquiredAgain = FALSE
  /\ routeSources = <<>>
  /\ routes = <<>>
  /\ routeLines = <<>>
  /\ route = <<>>
  /\ line = <<>>
  /\ lineResults = <<>>

Next ==
  \/ Kill \/ Arena \/ AreaRef \/ Enter \/ Town \/ Waypoint \/ GetWaypoint
  \/ SetPortal \/ UsePortal \/ Quest \/ QuestText \/ Generic \/ Trial \/ Ascend
  \/ Crafting \/ Direction \/ UnknownVerb \/ Finish

Spec == Init /\ [][Next]_vars

(***************************************************************************)
(* parseRoute over whole documents.  The input is built from at most       *)
(* MaxItems items: single characters, words, action tokens, line breaks    *)
(* and the boundary between two documents.                                 *)
(***************************************************************************)
MaxItems == 4

DocumentBreak == <<"<next document>">>

Items ==
  {<<" ">>, <<"#">>, <<"{">>, <<"}">>, <<"|">>, <<"\n">>, <<"\r">>, W("text"),
   <<"{", "jump", "}">>, <<"{", "enter", "|", "1_1_town", "}">>, DocumentBreak}

RECURSIVE Inputs(_)
Inputs(n) ==
  IF n = 0 THEN {<<>>}
  ELSE LET shorter == Inputs(n - 1)
       IN shorter \cup {Append(input, item) : input \in shorter, item \in Items}

\* The documents of an input: its items, concatenated, cut at the boundaries.
RECURSIVE Documents(_, _)
Documents(input, current) ==
  IF input = <<>> THEN <<current>>
  ELSE IF Head(input) = DocumentBreak THEN <<current>> \o Documents(Tail(input), <<>>)
  ELSE Documents(Tail(input), current \o Head(input))

InitRoute ==
  /\ lookup = initializeRouteLookup(null)
  /\ state = initializeRouteState
  /\ action = <<>>
  /\ result = NoResult
  /\ nactions = 0
  /\ pc = "document"
  /\ logs = <<>>
  /\ unlockedAreas = {}
  /\ departedAreas = {}
  /\ portalTrip = NoTrip
  /\ acquiredAgain = FALSE
  /\ routeSources \in {Documents(input, <<>>) : input \in Inputs(MaxItems)}
  /\ routes = <<>>
  /\ routeLines = <<>>
  /\ route = <<>>
  /\ line = <<>>
  /\ lineResults = <<>>

\* StartDocument with the state made anew for every document.
StartDocumentFresh ==
  /\ pc = "document"
  /\ Len(routes) < Len(routeSources)
  /\ routeLines' = SplitLines(routeSources[Len(routes) + 1], <<>>)
  /\ route' = <<>>
  /\ pc' = "lines"
  /\ state' = initializeRouteState
  /\ UNCHANGED <<lookup, action, result, nactions, logs, historyVars,
                 routeSources, routes, line, lineResults>>

\* The next document is split into its lines.
StartDocument ==
  /\ pc = "document"
  /\ Len(routes) < Len(routeSources)
  /\ routeLines' = SplitLines(routeSources[Len(routes) + 1], <<>>)
  /\ route' = <<>>
  /\ pc' = "lines"
  /\ UNCHANGED <<state, lookup, action, result, nactions, logs, historyVars,
                 routeSources, routes, line, lineResults>>

\* One line of the document: skipped when empty, else lexed and evaluated.
Line ==
  /\ pc = "lines"
  /\ routeLines # <<>>
  /\ line' = Head(routeLines)
  /\ routeLines' = Tail(routeLines)
  /\ IF Head(routeLines) = <<>>
     THEN /\ lineResults' = <<>>
          /\ UNCHANGED <<state, route, logs>>
     ELSE LET r == EvaluateLine(Head(routeLines), lookup, state)
          IN /\ state' = r.state
             /\ route' = route \o r.steps
             /\ logs' = logs \o r.logs
             /\ lineResults' = r.results
  /\ UNCHANGED <<lookup, action, result, nactions, pc, historyVars, routeSources, routes>>

\* The document's route joins the routes.
EndDocument ==
  /\ pc = "lines"
  /\ routeLines = <<>>
  /\ routes' = Append(routes, route)
  /\ pc' = "document"
  /\ UNCHANGED <<state, lookup, action, result, nactions, logs, historyVars,
                 routeSources, routeLines, route, line, lineResults>>

\* After the last document: the consistency pass; the routes are returned.
PostPass ==
  /\ pc = "document"
  /\ Len(routes) = Len(routeSources)
  /\ logs' = logs \o ConsistencyLogs(state)
  /\ pc' = "done"
  /\ UNCHANGED <<state, lookup, action, result, nactions, historyVars, routeVars>>

NextRoute == StartDocument \/ Line \/ EndDocument \/ PostPass

SpecRoute == InitRoute /\ [][NextRoute]_vars

(***************************************************************************)
(* EvaluateDirection on its own: a dir token for every integer angle from  *)
(* -MaxAngle to MaxAngle, written in decimal.                              *)
(***************************************************************************)
MaxAngle == 405

RECURSIVE DecimalDigits(_)
DecimalDigits(n) ==
  IF n < Len(Digits) THEN <<Digits[n + 1]>>
  ELSE Append(DecimalDigits(n \div Len(Digits)), Digits[(n % Len(Digits)) + 1])

Decimal(n) == IF n < 0 THEN <<"-">> \o DecimalDigits(0 - n) ELSE DecimalDigits(n)

InitDir ==
  /\ lookup = initializeRouteLookup(null)
  /\ state = initializeRouteState
  /\ action \in {<<W("dir"), Decimal(n)>> : n \in (0 - MaxAngle)..MaxAngle}
  /\ result = NoResult
  /\ nactions = 0
  /\ pc = "dir"
  /\ logs = <<>>
  /\ unlockedAreas = {}
  /\ departedAreas = {}
  /\ portalTrip = NoTrip
  /\ acquiredAgain = FALSE
  /\ routeSources = <<>>
  /\ routes = <<>>
  /\ routeLines = <<>>
  /\ route = <<>>
  /\ line = <<>>
  /\ lineResults = <<>>

EvaluateAngle ==
  /\ pc = "dir"
  /\ LET r == evaluateAction(action, lookup, state)
     IN /\ state' = r.state
        /\ result' = StripState(r)
  /\ nactions' = nactions + 1
  /\ pc' = "done"
  /\ UNCHANGED <<lookup, action, logs, historyVars, routeVars>>

NextDir == EvaluateAngle

SpecDir == InitDir /\ [][NextDir]_vars

(***************************************************************************)
(* Properties.  In Spec and SpecDir a step that evaluates a token raises   *)
(* nactions and leaves the token in action and its outcome in result.      *)
(***************************************************************************)
Evaluated == nactions' = nactions + 1

Failed(msg) == [type |-> "string", value |-> msg]
Succeeded(act) == [type |-> "result", action |-> act, additionalSteps |-> <<>>]

IsWaypointTo == Len(action) = 2 /\ action[1] = W("waypoint") /\ AreaExists(action[2])

\* C1 as stated: a waypoint to an area never unlocked by a kill, a get_waypoint
\* or a town entry fails with "missing target waypoint", the current area unchanged.
C1_NeverUnlockedTargetFails ==
  [][(Evaluated /\ IsWaypointTo' /\ AreaAt(action'[2]).id \notin unlockedAreas)
       => /\ result' = Failed("missing target waypoint")
          /\ state'.currentAreaId = state.currentAreaId]_vars

\* C1 (amended): a waypoint to an area never unlocked by a kill, a get_waypoint
\* or a town entry, and never left by a successful waypoint travel, fails with
\* "missing target waypoint" and leaves the current area unchanged.
C1_NeverUnlockedNorDepartedTargetFails ==
  [][(Evaluated /\ IsWaypointTo'
        /\ AreaAt(action'[2]).id \notin (unlockedAreas \cup departedAreas))
       => /\ result' = Failed("missing target waypoint")
          /\ state'.currentAreaId = state.currentAreaId]_vars

C1_Witness ==
  /\ nactions > 1
  /\ IsWaypointTo
  /\ AreaAt(action[2]).id \notin (unlockedAreas \cup departedAreas)
  /\ unlockedAreas # {}
  /\ result = Failed("missing target waypoint")

\* The one town of an act, read from the area table.
TheTownOf(act) ==
  CHOOSE id \in DOMAIN areas : areas[id].is_town_area /\ areas[id].act = act

\* C2: from a non-town area A with no anchor, set_portal then use_portal leads
\* to the town of A's act with the anchor still A; a second use_portal leads
\* back to A and clears the anchor; a third fails with "portal must be set".
C2_PortalRoundTrip ==
  /\ portalTrip.phase = "first" =>
       /\ result = Succeeded([type |-> "use_portal"])
       /\ state.currentAreaId = TheTownOf(areas[portalTrip.areaId].act)
       /\ state.portalAreaId = portalTrip.areaId
  /\ portalTrip.phase = "second" =>
       /\ result = Succeeded([type |-> "use_portal"])
       /\ state.currentAreaId = portalTrip.areaId
       /\ state.portalAreaId = null
  /\ portalTrip.phase = "third" =>
       /\ result = Failed("portal must be set")
       /\ state.currentAreaId = portalTrip.areaId
       /\ state.portalAreaId = null

C2_Witness == portalTrip.phase = "third" /\ result = Failed("portal must be set")

IsEnterTo == Len(action) = 2 /\ action[1] = W("enter") /\ AreaExists(action[2])

\* C3: an enter whose target exists and is connected to the current area makes
\* the target the current area and returns the Enter action with the target's id.
C3_EnterMovesToTarget ==
  [][(Evaluated /\ IsEnterTo'
        /\ state.currentAreaId \in AreaAt(action'[2]).connection_ids)
       => /\ state'.currentAreaId = action'[2][1]
          /\ result' = Succeeded([type |-> "enter", areaId |-> action'[2][1]])]_vars

C3_Witness ==
  /\ IsEnterTo
  /\ result = Succeeded([type |-> "enter", areaId |-> action[2][1]])
  /\ state.currentAreaId = action[2][1]
  /\ ~areas[action[2][1]].is_town_area

\* C4: get_waypoint where the current area has no waypoint fails with "area
\* does not have a waypoint" and leaves the explicit waypoints unchanged.
C4_GetWaypointNeedsWaypoint ==
  [][(Evaluated /\ action' = <<W("get_waypoint")>>
        /\ ~areas[state.currentAreaId].has_waypoint)
       => /\ result' = Failed("area does not have a waypoint")
          /\ state'.explicitWaypoints = state.explicitWaypoints]_vars

C4_Witness ==
  /\ action = <<W("get_waypoint")>>
  /\ ~areas[state.currentAreaId].has_waypoint
  /\ result = Failed("area does not have a waypoint")
  /\ state.implicitWaypoints # {}

\* C5: ascend in Labyrinth_Airlock succeeds and moves to the last town; anywhere
\* else it fails, naming the expected area, and changes nothing.
C5_AscendOnlyFromLabyrinth ==
  [][(Evaluated /\ action' = <<W("ascend")>>)
       => IF state.currentAreaId = "Labyrinth_Airlock"
          THEN /\ result' = Succeeded([type |-> "ascend"])
               /\ state' = [state EXCEPT !.currentAreaId = state.lastTownAreaId]
          ELSE /\ result' = Failed("must be in \"Aspirants' Plaza\"")
               /\ state' = state]_vars

C5_Witness ==
  /\ action = <<W("ascend")>>
  /\ result = Succeeded([type |-> "ascend"])
  /\ state.currentAreaId = state.lastTownAreaId
  /\ "Labyrinth_Airlock" \in state.usedWaypoints

\* C6: for an integer angle, dir succeeds exactly for the multiples of 45, with
\* index ((angle mod 360) / 45) in 0..7; -45 gives 7, 405 gives 1, 360 gives 0
\* and 50 fails with "dir value must be in intervals of 45".
C6_DirNormalization ==
  pc = "done" =>
    /\ \A n \in (0 - MaxAngle)..MaxAngle :
         action = <<W("dir"), Decimal(n)>> =>
           IF n % 45 = 0
           THEN /\ result = Succeeded([type |-> "dir", dirIndex |-> (n % 360) \div 45])
                /\ result.action.dirIndex \in 0..7
           ELSE result = Failed("dir value must be in intervals of 45")
    /\ action = <<W("dir"), <<"-", "4", "5">>>> => result.action.dirIndex = 7
    /\ action = <<W("dir"), <<"4", "0", "5">>>> => result.action.dirIndex = 1
    /\ action = <<W("dir"), <<"3", "6", "0">>>> => result.action.dirIndex = 0
    /\ action = <<W("dir"), <<"5", "0">>>> =>
         result = Failed("dir value must be in intervals of 45")

C6_Witness ==
  /\ pc = "done"
  /\ action = <<W("dir"), <<"-", "4", "5">>>>
  /\ result = Succeeded([type |-> "dir", dirIndex |-> 7])

\* A step of SpecRoute that evaluates the line left in line.
LineStep == pc = "lines" /\ routeLines # <<>> /\ routeLines' = Tail(routeLines)

\* A line that is only a comment: white space, a "#" and the rest.
CommentOnly(text) ==
  \E k \in 1..Len(text) : text[k] = "#" /\ \A m \in 1..(k - 1) : text[m] = " "

\* A line that is only action tokens: groups "{...}" with no brace inside.
RECURSIVE OnlyActionTokens(_)
OnlyActionTokens(text) ==
  \/ text = <<>>
  \/ /\ Len(text) >= 3
     /\ text[1] = "{"
     /\ text[2] \notin {"{", "}"}
     /\ \E j \in 3..Len(text) :
          /\ text[j] = "}"
          /\ \A m \in 2..(j - 1) : text[m] \notin {"{", "}"}
          /\ OnlyActionTokens(SubSeq(text, j + 1, Len(text)))

AllFailed(results) == results # <<>> /\ \A i \in 1..Len(results) : results[i] # "ok"

\* C7: a line that is only a comment, or only action tokens that all fail,
\* adds no step to the route.
C7_CommentOrFailedLineAddsNoStep ==
  [][(LineStep /\ (CommentOnly(line') \/ (OnlyActionTokens(line') /\ AllFailed(lineResults'))))
       => route' = route]_vars

C7_Witness ==
  /\ pc = "lines"
  /\ OnlyActionTokens(line)
  /\ AllFailed(lineResults)
  /\ Len(lineResults) > 1
  /\ route = <<>>

WhitespaceOnly(text) == text # <<>> /\ \A m \in 1..Len(text) : text[m] = " "

\* C8 as stated: a step is appended only with at least one part, and a line of
\* white space alone adds no step to the route.
C8_WhitespaceLineAddsNoStep ==
  [][LineStep =>
       /\ \A i \in (Len(route) + 1)..Len(route') :
            route'[i].type = "action_step" => Len(route'[i].parts) > 0
       /\ WhitespaceOnly(line') => route' = route]_vars

IsUnusedLog(entry, id) == entry = [log |-> "unused waypoint", areaId |-> id]

IsMissingLog(entry, id) ==
  entry = [log |-> "missing crafting area", areaId |-> id,
           crafting_recipes |-> areas[id].crafting_recipes]

\* C9: after the run there is exactly one "unused waypoint" diagnostic for each
\* explicit waypoint that was not travelled to, exactly one "missing crafting
\* area" diagnostic for each area with recipes that was no crafting stop, and
\* no other diagnostic of the pass.
C9_ConsistencyDiagnostics ==
  pc = "done" =>
    /\ \A id \in DOMAIN areas :
         /\ Cardinality({i \in 1..Len(logs) : IsUnusedLog(logs[i], id)}) =
              IF id \in state.explicitWaypoints \ state.usedWaypoints THEN 1 ELSE 0
         /\ Cardinality({i \in 1..Len(logs) : IsMissingLog(logs[i], id)}) =
              IF areas[id].crafting_recipes # <<>> /\ id \notin state.craftingAreas
              THEN 1 ELSE 0
    /\ \A i \in 1..Len(logs) :
         \E id \in DOMAIN areas : IsUnusedLog(logs[i], id) \/ IsMissingLog(logs[i], id)

C9_Witness ==
  /\ pc = "done"
  /\ \E i \in 1..Len(logs) : logs[i].log = "unused waypoint"
  /\ \E id \in state.craftingAreas : areas[id].crafting_recipes # <<>>
  /\ \E i \in 1..Len(logs) : logs[i].log = "missing crafting area"

\* C10: with a town for every act in the lookup, currentAreaId and
\* lastTownAreaId name areas of the table and portalAreaId is unset or names one.
C10_AreaIdsExist ==
  (\A id \in DOMAIN areas : areas[id].act \in DOMAIN lookup.towns) =>
    /\ state.currentAreaId \in DOMAIN areas
    /\ state.lastTownAreaId \in DOMAIN areas
    /\ state.portalAreaId = null \/ state.portalAreaId \in DOMAIN areas

C10_Witness ==
  /\ action = <<W("use_portal")>>
  /\ result = Succeeded([type |-> "use_portal"])
  /\ state.portalAreaId \in DOMAIN areas
  /\ state.currentAreaId = TheTownOf(areas[state.portalAreaId].act)
  /\ state.currentAreaId # state.lastTownAreaId

\* C11: parseRoute returns one route per document, in order, and does not
\* reset the state between documents: the routes and the final state of a run
\* over the documents are those of a run over the first ones followed by a run
\* over the others against the state the first run left.
C11_DocumentsShareState ==
  pc = "done" =>
    /\ Len(routes) = Len(routeSources)
    /\ \A k \in 1..(Len(routeSources) - 1) :
         LET first == parseRoute(SubSeq(routeSources, 1, k), lookup, initializeRouteState)
             second == parseRoute(SubSeq(routeSources, k + 1, Len(routeSources)),
                                  lookup, first.state)
         IN /\ routes = first.routes \o second.routes
            /\ state = second.state

C11_Witness ==
  /\ pc = "done"
  /\ Len(routeSources) = 2
  /\ routeSources[1] = routeSources[2]
  /\ routes[1] # <<>>
  /\ routes[2] = <<>>
  /\ state.currentAreaId = "1_1_town"

\* The action tokens of a lexed line.
ActionTokens(parsedStep) == SelectSeq(parsedStep, LAMBDA t : t.type = "action")

\* What a lexed line leaves in its step, given the outcome of each of its
\* action tokens in order: the literal fragments as they are and, for every
\* token that succeeded, the verb it resolved.
RECURSIVE KeptParts(_, _)
KeptParts(parsedStep, results) ==
  IF parsedStep = <<>> THEN <<>>
  ELSE LET subStep == Head(parsedStep)
       IN IF subStep.type = "string"
          THEN <<subStep>> \o KeptParts(Tail(parsedStep), results)
          ELSE IF Head(results) = "ok"
          THEN <<[type |-> "action", verb |-> subStep.value[1]]>>
               \o KeptParts(Tail(parsedStep), Tail(results))
          ELSE KeptParts(Tail(parsedStep), Tail(results))

\* The parts of a step, the actions reduced to their verb.
PartsShape(parts) ==
  [i \in 1..Len(parts) |->
     IF parts[i].type = "string" THEN parts[i]
     ELSE [type |-> "action", verb |-> W(parts[i].type)]]

\* A token failed and a later token of the line succeeded.
SucceededAfterFailure(results) ==
  \E i, j \in 1..Len(results) : i < j /\ results[i] # "ok" /\ results[j] = "ok"

\* C12: a failed action token drops only that token.  Every action token of the
\* line is evaluated, those after a failed one too, and the step holds, in the
\* order of the line, the literal fragments and the resolved action of every
\* token that succeeded.
C12_FailedTokenAloneIsDropped ==
  [][(LineStep /\ line' # <<>>)
       => LET parsedStep == parseStep(line')
              kept == KeptParts(parsedStep, lineResults')
          IN /\ Len(lineResults') = Len(ActionTokens(parsedStep))
             /\ IF kept = <<>> THEN route' = route
                ELSE /\ Len(route') = Len(route) + 1
                     /\ PartsShape(route'[Len(route')].parts) = kept
             /\ (SucceededAfterFailure(lineResults') => state' # state)]_vars

C12_Witness ==
  /\ line = <<"{", "jump", "}", "text", "{", "enter", "|", "1_1_town", "}">>
  /\ lineResults = <<ERROR_INVALID_FORMAT, "ok">>
  /\ Len(route) = 1
  /\ Len(route[1].parts) = 2
  /\ route[1].parts[2].type = "enter"
  /\ state.currentAreaId = "1_1_town"

\* The waypoints the state knows, implicit or explicit.
KnownWaypoints(st) == st.implicitWaypoints \cup st.explicitWaypoints

\* C13: the waypoints traveled to are always among the implicit and explicit
\* waypoints, and a waypoint travel succeeds only to an area that is in one of
\* the two sets when the action is evaluated.
C13_UsedWaypointsAreKnown ==
  /\ [](state.usedWaypoints \subseteq KnownWaypoints(state))
  /\ [][(Evaluated /\ IsWaypointTo' /\ result'.type = "result")
          => AreaAt(action'[2]).id \in KnownWaypoints(state)]_vars

C13_Witness ==
  /\ IsWaypointTo
  /\ result.type = "result"
  /\ AreaAt(action[2]).id \in state.usedWaypoints
  /\ AreaAt(action[2]).id \notin state.explicitWaypoints

\* A successful waypoint travel marks the area it leaves as implicitly known,
\* the target as used, and makes the target the current area.
WaypointTravelEffect ==
  (Evaluated /\ IsWaypointTo' /\ result'.type = "result")
    => /\ state'.implicitWaypoints = state.implicitWaypoints \cup {state.currentAreaId}
       /\ state'.usedWaypoints = state.usedWaypoints \cup {AreaAt(action'[2]).id}
       /\ state'.currentAreaId = AreaAt(action'[2]).id

\* A waypoint with no argument succeeds and changes no state.
BareWaypointEffect ==
  (Evaluated /\ action' = <<W("waypoint")>>)
    => /\ result' = Succeeded([type |-> "waypoint", areaId |-> null])
       /\ state' = state

\* C14 as stated: a successful waypoint with an area id records the departure
\* area as implicit, the target as used and moves there; with an area id it
\* fails with "area does not have a waypoint" when the current area has no
\* waypoint; with no argument it succeeds and changes no state.
C14_WaypointEffects ==
  [][/\ WaypointTravelEffect
     /\ (Evaluated /\ IsWaypointTo' /\ ~areas[state.currentAreaId].has_waypoint)
          => result' = Failed(ERROR_AREA_NO_WAYPOINT)
     /\ BareWaypointEffect]_vars

\* C14 (amended): as C14, the failure with "area does not have a waypoint"
\* being that of a waypoint to a target already among the implicit or explicit
\* waypoints; to a target in neither set the diagnostic is "missing target
\* waypoint", whether or not the current area has a waypoint.
C14_WaypointEffectsKnownTarget ==
  [][/\ WaypointTravelEffect
     /\ (Evaluated /\ IsWaypointTo' /\ ~areas[state.currentAreaId].has_waypoint)
          => /\ state' = state
             /\ result' = IF AreaAt(action'[2]).id \in KnownWaypoints(state)
                          THEN Failed(ERROR_AREA_NO_WAYPOINT)
                          ELSE Failed("missing target waypoint")
     /\ BareWaypointEffect]_vars

C14_Witness ==
  /\ IsWaypointTo
  /\ ~areas[state.currentAreaId].has_waypoint
  /\ AreaAt(action[2]).id \in KnownWaypoints(state)
  /\ result = Failed(ERROR_AREA_NO_WAYPOINT)
  /\ state.usedWaypoints # {}

IsGetWaypoint == action = <<W("get_waypoint")>>

\* C15: a get_waypoint where the current area has a waypoint that is not
\* implicitly known succeeds and puts the area among the explicit waypoints; a
\* second get_waypoint right after it, at the same area, succeeds as well and
\* leaves the explicit waypoints as they were, the area in them once.
C15_GetWaypointTwice ==
  [][/\ (Evaluated /\ IsGetWaypoint'
           /\ areas[state.currentAreaId].has_waypoint
           /\ state.currentAreaId \notin state.implicitWaypoints)
          => /\ result' = Succeeded([type |-> "get_waypoint"])
             /\ state'.explicitWaypoints = state.explicitWaypoints \cup {state.currentAreaId}
     /\ (Evaluated /\ IsGetWaypoint /\ result.type = "result" /\ IsGetWaypoint')
          => /\ result' = Succeeded([type |-> "get_waypoint"])
             /\ state.currentAreaId \in state.explicitWaypoints
             /\ state' = state
             /\ acquiredAgain']_vars

C15_Witness ==
  /\ acquiredAgain
  /\ IsGetWaypoint
  /\ result = Succeeded([type |-> "get_waypoint"])
  /\ state.explicitWaypoints = {state.currentAreaId}

\* C16: get_waypoint where the current area is already an implicit waypoint
\* (the area is a town entered, an area unlocked by a kill, or an area left
\* earlier by waypoint) fails with "waypoint already acquired" and adds nothing
\* to the explicit waypoints.
C16_ImplicitWaypointNotAcquired ==
  [][(Evaluated /\ IsGetWaypoint' /\ state.currentAreaId \in state.implicitWaypoints)
       => /\ result' = Failed("waypoint already acquired")
          /\ state'.explicitWaypoints = state.explicitWaypoints]_vars

C16_Witness ==
  /\ IsGetWaypoint
  /\ result = Failed("waypoint already acquired")
  /\ state.currentAreaId \in departedAreas
  /\ state.currentAreaId \notin unlockedAreas

\* C17: a successful enter into a town makes it the last town and, if it has a
\* waypoint, an implicit waypoint; a successful enter into an area that is not
\* a town leaves the last town and the three waypoint sets unchanged; an enter
\* to an existing area not connected to the current area fails with "not
\* connected to current area" and changes nothing.
C17_EnterEffects ==
  [][(Evaluated /\ IsEnterTo')
       => LET area == AreaAt(action'[2])
          IN /\ (result'.type = "result" /\ area.is_town_area)
                  => /\ state'.lastTownAreaId = area.id
                     /\ state'.implicitWaypoints =
                          state.implicitWaypoints
                            \cup (IF area.has_waypoint THEN {area.id} ELSE {})
             /\ (result'.type = "result" /\ ~area.is_town_area)
                  => /\ state'.lastTownAreaId = state.lastTownAreaId
                     /\ state'.implicitWaypoints = state.implicitWaypoints
                     /\ state'.explicitWaypoints = state.explicitWaypoints
                     /\ state'.usedWaypoints = state.usedWaypoints
             /\ state.currentAreaId \notin area.connection_ids
                  => /\ result' = Failed("not connected to current area")
                     /\ state' = state]_vars

C17_Witness ==
  /\ IsEnterTo
  /\ result.type = "result"
  /\ areas[action[2][1]].is_town_area
  /\ state.lastTownAreaId = "1_2_town"
  /\ state.implicitWaypoints = {"1_1_town", "1_2_town"}

IsUsePortal == action = <<W("use_portal")>>

\* C18: with an anchor set, use_portal from an area that is neither the anchor
\* nor a town fails with "can only use portal from town or portal area" and
\* leaves the current area and the anchor unchanged; from a town that is not
\* the anchor it moves to the anchor and clears the anchor.
C18_UsePortalAwayFromAnchor ==
  [][(Evaluated /\ IsUsePortal' /\ state.portalAreaId # null
        /\ state.currentAreaId # state.portalAreaId)
       => IF areas[state.currentAreaId].is_town_area
          THEN /\ result' = Succeeded([type |-> "use_portal"])
               /\ state'.currentAreaId = state.portalAreaId
               /\ state'.portalAreaId = null
          ELSE /\ result' = Failed("can only use portal from town or portal area")
               /\ state'.currentAreaId = state.currentAreaId
               /\ state'.portalAreaId = state.portalAreaId]_vars

C18_Witness ==
  /\ IsUsePortal
  /\ result = Failed("can only use portal from town or portal area")
  /\ state.portalAreaId \notin {null, state.currentAreaId}
  /\ ~areas[state.currentAreaId].is_town_area

\* C19: an evaluation that returns a diagnostic string, whatever the verb and
\* whatever the reason, leaves the whole RouteState unchanged.
C19_DiagnosticLeavesState ==
  [][(Evaluated /\ result'.type = "string") => state' = state]_vars

C19_Witness ==
  /\ IsWaypointTo
  /\ result = Failed(ERROR_AREA_NO_WAYPOINT)
  /\ state.implicitWaypoints # {}
  /\ state.usedWaypoints = {}
  /\ state.portalAreaId # null

\* C20: lastTownAreaId always names a town area, so after a successful town or
\* ascend the current area is a town.
C20_LastTownIsTown ==
  /\ areas[state.lastTownAreaId].is_town_area
  /\ (action \in {<<W("town")>>, <<W("ascend")>>} /\ result.type = "result")
       => /\ state.currentAreaId = state.lastTownAreaId
          /\ areas[state.currentAreaId].is_town_area

C20_Witness ==
  /\ action = <<W("ascend")>>
  /\ result = Succeeded([type |-> "ascend"])
  /\ state.currentAreaId = "1_1_town"
  /\ expectedAreaId \in state.usedWaypoints

====
